---- MODULE Spec2Model ----
(***************************************************************************)
(* The Zoho Cliq bridge: the credential resolvers (loadToken,              *)
(* refreshAccessToken, clearTokenCache of the OAuth client; getZapikey,    *)
(* getOAuthToken of the webhook client) and the request dispatch           *)
(* (apiRequest with its retry on an auth rejection, curlJson, listChannels,*)
(* sendMessage, replyToMessage) of both deployment variants, and the tool   *)
(* handler with its input schemas in front of them.                        *)
(*                                                                         *)
(* Every subprocess call is synchronous (execSync), so a call runs without *)
(* interleaving; the model steps through one call at a time: the call's    *)
(* start up to its first API request, the first response, and the response *)
(* to the retried request.  What the outside world answers (the secret     *)
(* store, the token exchange, the file system, the upstream API) is drawn  *)
(* from small sets.                                                        *)
(***************************************************************************)
EXTENDS Integers, Sequences, FiniteSets, TLC

VARIABLES
    variant,           \* "oauth" (part_003 + index.ts) or "webhook" (part_002 + part_001)
    moduleKind,        \* what the build emits: "commonjs" or "esm" (no `require`)
    env,               \* process.env.CLIQ_ACCESS_TOKEN (oauth) / CLIQ_ZAPIKEY (webhook); "" = unset
    store,             \* the fields the 1Password item(s) hold
    cachedToken,       \* part_003:51
    cachedExp,         \* ghost: the expiry instant of the token held in cachedToken
    disk,              \* the file at CONFIG_PATH
    cachedZapikey,     \* part_002:40
    cachedOAuthToken,  \* part_002:41
    oauthExpiresAt,    \* part_002:42
    envChannel,        \* process.env.CLIQ_DEFAULT_CHANNEL (webhook); "" = unset
    now,               \* Date.now()
    ticks,             \* number of clock advances so far
    pc,                \* "idle", "Initial", "Retried", "Done"
    call,              \* the operation in progress (or last finished) and its input
    reqs,              \* the API requests this call has issued, in order
    resps,             \* the upstream responses this call has received, in order
    rsv,               \* the credential resolutions this call has made, in order
    log,               \* the call's steps, in order
    result             \* the value the operation returned

vars == <<variant, moduleKind, env, store, cachedToken, cachedExp, disk, cachedZapikey,
          cachedOAuthToken, oauthExpiresAt, envChannel, now, ticks, pc, call, reqs, resps,
          rsv, log, result>>

-----------------------------------------------------------------------------
(* Bounds of the model *)

MaxTicks == 1

Now0 == 5000

(* Program constants *)

DefaultExpiresIn == 3600

MsPerSec == 1000

-----------------------------------------------------------------------------
(* Values *)

\* A JavaScript string is truthy unless it is empty; null and undefined are
\* modelled by the empty string wherever the code only tests truthiness.
Truthy(s) == s # ""

Null == "<null>"

Deltas == {MsPerSec, DefaultExpiresIn * MsPerSec}

OverrideTokens == {"", "tok-123"}

StoreFields == {"refresh_token", "client_id", "client_secret", "credential"}

\* The item holds every field, or lacks one.
Stores == {StoreFields} \cup {StoreFields \ {f} : f \in StoreFields}

AbsentFile == [state |-> "absent", access_token |-> "", expires_at |-> 0]

EmptyRecord == [state |-> "json", access_token |-> "", expires_at |-> 0]

CorruptFile == [state |-> "corrupt", access_token |-> "", expires_at |-> 0]

TokenRecord(tok, exp) == [state |-> "json", access_token |-> tok, expires_at |-> exp]

InitialDisks == {AbsentFile, CorruptFile,
                 TokenRecord("tOld", Now0 - MsPerSec),
                 TokenRecord("tOld", Now0 + MsPerSec)}

\* What the token endpoint answers: the curl call fails or its output is not
\* JSON (ok = FALSE), or it is a JSON object with or without access_token and
\* expires_in (0 = absent).
ExchangeResults ==
    {[ok |-> FALSE, access_token |-> "", expires_in |-> 0],
     [ok |-> TRUE, access_token |-> "", expires_in |-> 0],
     [ok |-> TRUE, access_token |-> "tA", expires_in |-> 0],
     [ok |-> TRUE, access_token |-> "tB", expires_in |-> 1]}

NoChannels == <<>>

RawChannels == <<[id |-> "1", name |-> "General", unique_name |-> "general", extra |-> "x"],
                 [id |-> "2", name |-> "Dev", unique_name |-> "dev", extra |-> "y"]>>

\* An upstream response: whether curl ran to completion (exec), the HTTP
\* status, and the body: raw "empty" or "text" (not JSON), or the JSON value
\* "null", "false" or an "object" with its code, channels and id fields.
Resp(exec, status, body, code, hasCh, id) ==
    [exec |-> exec, status |-> status, body |-> body, code |-> code,
     hasChannels |-> hasCh, channels |-> IF hasCh THEN RawChannels ELSE NoChannels,
     id |-> id]

Responses ==
    {Resp(TRUE, 200, "object", "", TRUE, ""),
     Resp(TRUE, 201, "object", "", FALSE, "m1"),
     Resp(TRUE, 204, "empty", "", FALSE, ""),
     Resp(TRUE, 200, "null", "", FALSE, ""),
     Resp(TRUE, 200, "false", "", FALSE, ""),
     Resp(TRUE, 401, "object", "INVALID_OAUTH", FALSE, ""),
     Resp(TRUE, 401, "object", "OAUTH_EXPIRED", FALSE, ""),
     Resp(TRUE, 500, "object", "internal_error", FALSE, ""),
     Resp(FALSE, 0, "empty", "", FALSE, "")}

NullData == [body |-> "null", code |-> "", hasChannels |-> FALSE,
             channels |-> NoChannels, id |-> ""]

DataOf(r) == [body |-> r.body, code |-> r.code, hasChannels |-> r.hasChannels,
              channels |-> r.channels, id |-> r.id]

\* !data
Falsy(d) == d.body \in {"null", "false"}

Texts == {"", "hi"}

Ids == {"", "42"}

NoInput == [text |-> "", channelId |-> "", channelName |-> "", chatId |-> "",
            userId |-> "", messageId |-> ""]

\* Every combination of selectors with an empty text; with a text: no selector,
\* each selector alone, and each pair of selectors next to each other in
\* sendMessage's if-chain.
SelectorSets == {{}, {"channelId"}, {"channelName"}, {"chatId"}, {"userId"},
                 {"channelId", "channelName"}, {"channelName", "chatId"},
                 {"chatId", "userId"}}

SendInputs ==
    {in \in [text : Texts, channelId : Ids, channelName : Ids, chatId : Ids,
             userId : Ids, messageId : {""}] :
        in.text = "" \/ {k \in {"channelId", "channelName", "chatId", "userId"} :
                            in[k] # ""} \in SelectorSets}

ReplyInputs == [text : Texts, channelId : {""}, channelName : {""}, chatId : {""},
                userId : {""}, messageId : {"", "m0"}]

-----------------------------------------------------------------------------
(* The secret store (the `op item get` subprocess) *)

\* The value of a field of the 1Password item, "" when the item lacks it.
OpGet(field) == IF field \in store THEN "op-" \o field ELSE ""

-----------------------------------------------------------------------------
(* OAuth client: loadToken, refreshAccessToken, clearTokenCache *)

\* A resolver's outcome: the token returned ("" = null), where it came from,
\* the in-memory slot and the file afterwards, and the steps taken.  Three
\* fields record what the outside world answered, for the properties only: the
\* access token and the lifetime the token endpoint granted ("" and 0 when no
\* exchange was made or it gave none), and whether the write of the cache file
\* went through.
Outcome(ret, src, mem, exp, dsk, ev) ==
    [ret |-> ret, src |-> src, mem |-> mem, exp |-> exp, disk |-> dsk, ev |-> ev,
     granted |-> "", lifetime |-> 0, wrote |-> FALSE]

\* The outcome of a resolution that asked the token endpoint and got xr.
Answered(o, xr) ==
    [o EXCEPT !.granted = IF xr.ok THEN xr.access_token ELSE "",
              !.lifetime = IF xr.ok THEN xr.expires_in ELSE 0]

\* Mutant: the expiry comparison is inverted.
DiskAccepts_Inverted(dsk, t) ==
    /\ dsk.state = "json"
    /\ Truthy(dsk.access_token)
    /\ dsk.expires_at # 0
    /\ t > dsk.expires_at

\* config.access_token && config.expires_at && Date.now() < config.expires_at
DiskAccepts(dsk, t) ==
    /\ dsk.state = "json"
    /\ Truthy(dsk.access_token)
    /\ dsk.expires_at # 0
    /\ t < dsk.expires_at

\* Mutant: no default lifetime.
ExpiresIn_NoDefault(xr) == xr.expires_in

\* response.expires_in || 3600
ExpiresIn(xr) == IF xr.expires_in # 0 THEN xr.expires_in ELSE DefaultExpiresIn

\* Date.now() + expiresIn * 1000
ExpiresAt(t, xr) == t + ExpiresIn(xr) * MsPerSec

\* writeFileSync(CONFIG_PATH, ...): the file afterwards; a failed write leaves
\* it as it was.
WriteFile(dsk, content, wok) == IF wok THEN content ELSE dsk

\* Mutant: only the client id is checked.
HasClientCredentials_IdOnly == Truthy(OpGet("client_id"))

\* !clientId || !clientSecret, negated
HasClientCredentials == Truthy(OpGet("client_id")) /\ Truthy(OpGet("client_secret"))

\* Mutant: the override is never read.
EnvOverride_Unread == ""

\* process.env.CLIQ_ACCESS_TOKEN (OAuth client), process.env.CLIQ_ZAPIKEY (webhook
\* client)
EnvOverride == env

\* refreshAccessToken(refreshToken), entered with the in-memory slot empty.
\* xr is the token endpoint's answer, wok whether the cache file can be written.
RefreshAccessToken(dsk, t, xr, wok) ==
    LET lookups == <<"op:client_id", "op:client_secret">> IN
    IF ~HasClientCredentials
    THEN Outcome("", "none", "", 0, dsk, lookups)
    ELSE IF ~xr.ok
    THEN Answered(Outcome("", "none", "", 0, dsk, lookups \o <<"exchange">>), xr)
    ELSE IF Truthy(xr.access_token)
    THEN [Answered(
            Outcome(xr.access_token, "refresh", xr.access_token, ExpiresAt(t, xr),
                    WriteFile(dsk, TokenRecord(xr.access_token, ExpiresAt(t, xr)), wok),
                    lookups \o <<"exchange", "writeDisk">>), xr)
          EXCEPT !.wrote = wok]
    ELSE Answered(Outcome("", "none", "", 0, dsk, lookups \o <<"exchange">>), xr)

\* loadToken()
LoadToken(mem, mexp, dsk, t, xr, wok) ==
    IF Truthy(mem) THEN Outcome(mem, "memory", mem, mexp, dsk, <<>>)
    ELSE IF Truthy(EnvOverride)
    THEN Outcome(EnvOverride, "override", EnvOverride, -1, dsk, <<>>)
    ELSE LET read == IF dsk.state # "absent" THEN <<"readDisk">> ELSE <<>> IN
         IF DiskAccepts(dsk, t)
         THEN Outcome(dsk.access_token, "disk", dsk.access_token, dsk.expires_at,
                      dsk, read)
         ELSE IF Truthy(OpGet("refresh_token"))
         THEN LET r == RefreshAccessToken(dsk, t, xr, wok) IN
              [r EXCEPT !.ev = read \o <<"op:refresh_token">> \o r.ev]
         ELSE Outcome("", "none", "", 0, dsk, read \o <<"op:refresh_token">>)

\* Mutant: the invalidation leaves the file alone.
ClearTokenCache_KeepsFile(dsk, cwok) == dsk

\* clearTokenCache(): the file afterwards (the slot is set to null by the caller
\* of this operator); cwok is whether the file can be written.
ClearTokenCache(dsk, cwok) ==
    IF dsk.state # "absent" THEN WriteFile(dsk, EmptyRecord, cwok) ELSE dsk

-----------------------------------------------------------------------------
(* Webhook client: getZapikey, getOAuthToken *)

\* getZapikey()
GetZapikey(zap) ==
    IF Truthy(zap) THEN Outcome(zap, "memory", zap, -1, AbsentFile, <<>>)
    ELSE IF Truthy(EnvOverride)
    THEN Outcome(EnvOverride, "override", EnvOverride, -1, AbsentFile, <<>>)
    ELSE Outcome(OpGet("credential"),
                 IF Truthy(OpGet("credential")) THEN "store" ELSE "none",
                 OpGet("credential"), -1, AbsentFile, <<"op:credential">>)

\* cachedOAuthToken && Date.now() < oauthExpiresAt
SlotAccepts(tok, exp, t) == Truthy(tok) /\ t < exp

\* Mutant: a failed resolution empties the slot.
GetOAuthToken_DropsSlot(tok, exp, t, xr) ==
    IF SlotAccepts(tok, exp, t) THEN Outcome(tok, "memory", tok, exp, AbsentFile, <<>>)
    ELSE IF ~Truthy(OpGet("refresh_token"))
    THEN Outcome("", "none", "", 0, AbsentFile, <<"op:refresh_token">>)
    ELSE LET lookups == <<"op:refresh_token", "op:client_id", "op:client_secret">> IN
         IF ~HasClientCredentials
         THEN Outcome("", "none", "", 0, AbsentFile, lookups)
         ELSE IF xr.ok /\ Truthy(xr.access_token)
         THEN Answered(Outcome(xr.access_token, "refresh", xr.access_token,
                               ExpiresAt(t, xr), AbsentFile,
                               lookups \o <<"exchange">>), xr)
         ELSE Answered(Outcome("", "none", "", 0, AbsentFile,
                               lookups \o <<"exchange">>), xr)

\* getOAuthToken()
GetOAuthToken(tok, exp, t, xr) ==
    IF SlotAccepts(tok, exp, t) THEN Outcome(tok, "memory", tok, exp, AbsentFile, <<>>)
    ELSE IF ~Truthy(OpGet("refresh_token"))
    THEN Outcome("", "none", tok, exp, AbsentFile, <<"op:refresh_token">>)
    ELSE LET lookups == <<"op:refresh_token", "op:client_id", "op:client_secret">> IN
         IF ~HasClientCredentials
         THEN Outcome("", "none", tok, exp, AbsentFile, lookups)
         ELSE IF xr.ok /\ Truthy(xr.access_token)
         THEN Answered(Outcome(xr.access_token, "refresh", xr.access_token,
                               ExpiresAt(t, xr), AbsentFile,
                               lookups \o <<"exchange">>), xr)
         ELSE Answered(Outcome("", "none", tok, exp, AbsentFile,
                               lookups \o <<"exchange">>), xr)

\* The record kept of one resolution: the state it started from, and its outcome.
Resolution(kind, memBefore, expBefore, dskBefore, t, o) ==
    [kind |-> kind, memBefore |-> memBefore, expBefore |-> expBefore,
     diskBefore |-> dskBefore, at |-> t, override |-> env,
     ret |-> o.ret, src |-> o.src, ev |-> o.ev,
     memAfter |-> o.mem, expAfter |-> o.exp, diskAfter |-> o.disk,
     granted |-> o.granted, lifetime |-> o.lifetime, wrote |-> o.wrote]

-----------------------------------------------------------------------------
(* Requests *)

BASE_URL == "https://cliq.zoho.com/api/v2"

BOT_NAME == "guidobarton"

\* process.env.CLIQ_DEFAULT_CHANNEL || "luminous"
DEFAULT_CHANNEL == IF Truthy(envChannel) THEN envChannel ELSE "luminous"

AuthCodes == {"INVALID_OAUTH", "OAUTH_EXPIRED"}

\* The curl command line as its words: method at 2, URL at 3, then the headers
\* and, when there is a body, -d and the body.
AuthHeader(token) == <<"-H", "Authorization:", "Zoho-oauthtoken", token>>

ContentType == <<"-H", "Content-Type: application/json">>

BodyFlag(bodyStr) == IF Truthy(bodyStr) THEN <<"-d", bodyStr>> ELSE <<>>

\* apiRequest's curlCmd
CurlCmd(method, url, token, bodyStr) ==
    <<"curl -s -X", method, url>> \o AuthHeader(token) \o ContentType
        \o BodyFlag(bodyStr)

\* curlJson's cmd
CurlJsonCmd(method, url, headers, bodyStr) ==
    <<"curl -s -o /tmp/cliq-mcp-response.txt -w %{http_code} -X", method, url>>
        \o headers \o BodyFlag(bodyStr)

Method(cmd) == cmd[2]

Url(cmd) == cmd[3]

\* The credential of the Authorization header, "" when there is no such header.
Auth(cmd) ==
    IF \E i \in 1..(Len(cmd) - 2) : cmd[i] = "Authorization:"
    THEN cmd[(CHOOSE i \in 1..(Len(cmd) - 2) : cmd[i] = "Authorization:") + 2]
    ELSE ""

\* The body given with -d, "" when there is none.
Body(cmd) ==
    IF \E i \in 1..(Len(cmd) - 1) : cmd[i] = "-d"
    THEN cmd[(CHOOSE i \in 1..(Len(cmd) - 1) : cmd[i] = "-d") + 1]
    ELSE ""

\* String.prototype.replace with a string pattern: the first occurrence only.
ReplaceFirst(s, pat, rep) ==
    LET hits == {i \in 1..(Len(s) - Len(pat) + 1) : SubSeq(s, i, i + Len(pat) - 1) = pat}
    IN IF hits = {} THEN s
       ELSE LET i == CHOOSE k \in hits : \A j \in hits : k <= j
            IN SubSeq(s, 1, i - 1) \o rep \o SubSeq(s, i + Len(pat), Len(s))

\* Mutant: the command is reissued as it was, with the rejected credential.
RetryCmd_Unreplaced(cmd, token, newToken) == cmd

\* curlCmd.replace(`Zoho-oauthtoken ${token}`, `Zoho-oauthtoken ${newToken}`)
RetryCmd(cmd, token, newToken) ==
    ReplaceFirst(cmd, <<"Zoho-oauthtoken", token>>, <<"Zoho-oauthtoken", newToken>>)

\* Mutant: a channel name is sent to the endpoint of channel ids.
Endpoint_NameAsId(input) ==
    IF Truthy(input.channelId) THEN "/channels/" \o input.channelId \o "/messages"
    ELSE IF Truthy(input.channelName)
    THEN "/channels/" \o input.channelName \o "/messages"
    ELSE IF Truthy(input.chatId) THEN "/chats/" \o input.chatId \o "/messages"
    ELSE IF Truthy(input.userId) THEN "/users/" \o input.userId \o "/messages"
    ELSE ""

\* The destination-specific endpoint of sendMessage (OAuth client), "" when no
\* selector is given.
Endpoint(input) ==
    IF Truthy(input.channelId) THEN "/channels/" \o input.channelId \o "/messages"
    ELSE IF Truthy(input.channelName)
    THEN "/channelsbyname/" \o input.channelName \o "/message"
    ELSE IF Truthy(input.chatId) THEN "/chats/" \o input.chatId \o "/messages"
    ELSE IF Truthy(input.userId) THEN "/users/" \o input.userId \o "/messages"
    ELSE ""

\* JSON.stringify of the payloads
SendPayload(input) == "{text:" \o input.text \o ",sync_message:true}"

\* Mutant: the reply is sent with sendMessage's payload.
ReplyPayload_AsSend(input) == "{text:" \o input.text \o ",sync_message:true}"

ReplyPayload(input) ==
    "{text:" \o input.text \o ",parent_message_id:" \o input.messageId \o "}"

WebhookPayload(input) ==
    "{text:" \o input.text \o ",channel:"
        \o (IF Truthy(input.channelName) THEN input.channelName ELSE DEFAULT_CHANNEL)
        \o "}"

WebhookUrl(zapikey) == BASE_URL \o "/bots/" \o BOT_NAME \o "/incoming?zapikey=" \o zapikey

-----------------------------------------------------------------------------
(* Results *)

NoTokenError == "No access token available. Check CLIQ_ACCESS_TOKEN env var or 1Password item."

RefreshFailedError == "Failed to refresh access token"

NoOAuthError == "No OAuth token available. Check 1Password item 'cliq.zoho.com'."

NoWebhookError == "No webhook token available. Check 1Password item 'Cliq luminous-agent-api'."

TextRequiredError == "Message text is required"

NoSelectorError == "Must specify channelId, channelName, chatId, or userId"

ReplyRequiredError == "Message ID and text are required"

ShapeError == "Unexpected response format"

ExecError == "Command failed: curl"

ParseError == "Unexpected end of JSON input"

TypeError == "Cannot read properties of null (reading 'code')"

HttpError(status) == "HTTP " \o ToString(status)

\* apiRequest's { data, error }
Api(data, error) == [data |-> data, error |-> error]

\* What an operation returns: channels (listChannels), payload (message or
\* reply), success (webhook sendMessage), error (Null = null); thrown is TRUE
\* when the operation raised instead of returning.
Result(channels, payload, success, error) ==
    [channels |-> channels, payload |-> payload, success |-> success,
     error |-> error, thrown |-> FALSE]

Thrown(error) ==
    [channels |-> NoChannels, payload |-> NullData, success |-> FALSE,
     error |-> error, thrown |-> TRUE]

NoResult == Result(NoChannels, NullData, FALSE, Null)

\* response.channels.map((c) => ({ id, name, unique_name }))
MapChannels(chs) ==
    [i \in 1..Len(chs) |->
        [id |-> chs[i].id, name |-> chs[i].name, unique_name |-> chs[i].unique_name]]

\* listChannels after apiRequest (OAuth client)
ListChannelsResult(api) ==
    IF api.error # Null \/ Falsy(api.data)
    THEN Result(NoChannels, NullData, FALSE, api.error)
    ELSE IF ~api.data.hasChannels
    THEN Result(NoChannels, NullData, FALSE, ShapeError)
    ELSE Result(MapChannels(api.data.channels), NullData, FALSE, Null)

\* sendMessage and replyToMessage after apiRequest (OAuth client)
MessageResult(api) ==
    IF api.error # Null \/ Falsy(api.data)
    THEN Result(NoChannels, NullData, FALSE, api.error)
    ELSE Result(NoChannels, api.data, FALSE, Null)

\* Mutant: the failure of the second resolution is reported as the first's.
RefreshFailure_AsNoToken == Api(NullData, NoTokenError)

\* apiRequest's return value when the resolution after an auth rejection fails
RefreshFailure == Api(NullData, RefreshFailedError)

\* The operation's result from apiRequest's
OpResult(op, api) ==
    IF op = "listChannels" THEN ListChannelsResult(api) ELSE MessageResult(api)

-----------------------------------------------------------------------------
(* apiRequest (OAuth client) *)

\* JSON.parse(result) throws on an empty or non-JSON body
Unparseable(resp) == resp.body \in {"empty", "text"}

\* Mutant: any error code of the response is taken for an auth rejection.
IsAuthRejection_AnyCode(resp) ==
    /\ resp.exec
    /\ resp.body = "object"
    /\ Truthy(resp.code)

\* data.code === "INVALID_OAUTH" || data.code === "OAUTH_EXPIRED"
IsAuthRejection(resp) ==
    /\ resp.exec
    /\ resp.body = "object"
    /\ resp.code \in AuthCodes

\* apiRequest's return value when the first response is no auth rejection
FirstResponse(resp) ==
    IF ~resp.exec THEN Api(NullData, ExecError)
    ELSE IF Unparseable(resp) THEN Api(NullData, ParseError)
    ELSE IF resp.body = "null" THEN Api(NullData, TypeError)
    ELSE Api(DataOf(resp), Null)

\* apiRequest's return value after the retried request
RetryResponse(resp) ==
    IF ~resp.exec THEN Api(NullData, ExecError)
    ELSE IF Unparseable(resp) THEN Api(NullData, ParseError)
    ELSE Api(DataOf(resp), Null)

\* Mutant: sendMessage looks at the selectors only.
InputError_NoTextCheck(op, input) ==
    IF op = "sendMessage"
    THEN IF ~Truthy(Endpoint(input)) THEN NoSelectorError ELSE Null
    ELSE IF op = "replyToMessage"
    THEN IF ~Truthy(input.text) \/ ~Truthy(input.messageId) THEN ReplyRequiredError
         ELSE Null
    ELSE Null

\* The input checks that precede apiRequest: the error returned, Null when the
\* input passes.
InputError(op, input) ==
    IF op = "sendMessage"
    THEN IF ~Truthy(input.text) THEN TextRequiredError
         ELSE IF ~Truthy(Endpoint(input)) THEN NoSelectorError
         ELSE Null
    ELSE IF op = "replyToMessage"
    THEN IF ~Truthy(input.text) \/ ~Truthy(input.messageId) THEN ReplyRequiredError
         ELSE Null
    ELSE Null

\* The first request of an operation, given the credential
FirstCmd(op, input, token) ==
    IF op = "listChannels" THEN CurlCmd("GET", BASE_URL \o "/channels", token, "")
    ELSE IF op = "sendMessage"
    THEN CurlCmd("POST", BASE_URL \o Endpoint(input), token, SendPayload(input))
    ELSE CurlCmd("POST", BASE_URL \o "/messages", token, ReplyPayload(input))

-----------------------------------------------------------------------------
(* curlJson and the operations of the webhook client *)

\* `const { readFileSync } = require("fs")` inside curlJson's try: in a module
\* emitted as an ES module `require` is not defined, the ReferenceError is
\* swallowed by the catch, and the response file is never read.
RequireDefined == moduleKind = "commonjs"

\* curlJson's data: null for an empty or non-JSON body (and whenever the body
\* is not read)
CurlJsonData(resp) ==
    IF ~RequireDefined \/ Unparseable(resp) THEN NullData ELSE DataOf(resp)

Is2xx(status) == status >= 200 /\ status < 300

\* listChannels after curlJson (webhook client)
ListChannelsW(resp) ==
    IF ~resp.exec THEN Thrown(ExecError)
    ELSE IF ~Is2xx(resp.status)
    THEN Result(NoChannels, NullData, FALSE, HttpError(resp.status))
    ELSE IF ~CurlJsonData(resp).hasChannels
    THEN Result(NoChannels, NullData, FALSE, ShapeError)
    ELSE Result(MapChannels(CurlJsonData(resp).channels), NullData, FALSE, Null)

\* sendMessage after curlJson (webhook client)
SendMessageW(resp) ==
    IF ~resp.exec THEN Thrown(ExecError)
    ELSE IF Is2xx(resp.status) THEN Result(NoChannels, NullData, TRUE, Null)
    ELSE Result(NoChannels, NullData, FALSE, HttpError(resp.status))

-----------------------------------------------------------------------------
(* The tool handler (CallToolRequestSchema) and the input schemas *)

ListTool == "cliq_list_channels"

SendTool == "cliq_send_message"

ReplyTool == "cliq_reply_to_message"

\* The names a client may invoke: the three tools and a name the server lacks.
ToolNames == {ListTool, SendTool, ReplyTool, "cliq_delete_message"}

\* request.params.arguments: an object, or undefined when the client sent none.
ArgsKinds == {"object", "missing"}

ToolOf(op) ==
    IF op = "listChannels" THEN ListTool
    ELSE IF op = "sendMessage" THEN SendTool
    ELSE ReplyTool

\* ListChannelsSchema.parse(args) does not throw: z.object({})
ListChannelsSchema(args) == args = "object"

\* The refinement of the OAuth server's SendMessageSchema:
\* data.channelId || data.channelName || data.chatId || data.userId
AtLeastOneSelector(input) ==
    \/ Truthy(input.channelId)
    \/ Truthy(input.channelName)
    \/ Truthy(input.chatId)
    \/ Truthy(input.userId)

\* SendMessageSchema.parse(args) does not throw (OAuth server)
SendMessageSchema(args, input) ==
    /\ args = "object"
    /\ Truthy(input.text)
    /\ AtLeastOneSelector(input)

\* SendMessageSchema.parse(args) does not throw (webhook server)
SendMessageSchemaW(args, input) ==
    /\ args = "object"
    /\ Truthy(input.text)

\* What the webhook server's SendMessageSchema.parse returns: z.object keeps
\* the keys it declares (text, channelName) and strips the others.
ValidatedW(input) ==
    [NoInput EXCEPT !.text = input.text, !.channelName = input.channelName]

\* ReplyToMessageSchema.parse(args) does not throw
ReplyToMessageSchema(args, input) ==
    /\ args = "object"
    /\ Truthy(input.messageId)
    /\ Truthy(input.text)

\* The schema of the tool lets the arguments through.
SchemaAccepts(v, tool, args, input) ==
    IF tool = ListTool THEN ListChannelsSchema(args)
    ELSE IF tool = SendTool
    THEN IF v = "oauth" THEN SendMessageSchema(args, input)
         ELSE SendMessageSchemaW(args, input)
    ELSE IF tool = ReplyTool THEN ReplyToMessageSchema(args, input)
    ELSE FALSE

\* The handler answers without calling an operation of the client: the tool is
\* unknown, it is the webhook server's reply tool, or the schema throws.
AnswersAlone(v, tool, args, input) ==
    \/ tool \notin {ListTool, SendTool, ReplyTool}
    \/ v = "webhook" /\ tool = ReplyTool
    \/ ~SchemaAccepts(v, tool, args, input)

\* The input the handler passes to the operation is one a schema returns.
FromSchema(v, op, input) ==
    /\ SchemaAccepts(v, ToolOf(op), "object", input)
    /\ v = "webhook" => input = ValidatedW(input)

ZodError == "ZodError"

NotSupportedText == "Reply-to-message is not yet supported via bot webhook."

UnknownToolText(name) == "Unknown tool: " \o name

\* A CallToolResult: the isError flag (absent = FALSE), the text, and the value
\* the text renders with JSON.stringify (channels or payload); escaped is TRUE
\* when the handler raises instead of returning.
ToolReply(isError, text, channels, payload) ==
    [isError |-> isError, text |-> text, channels |-> channels,
     payload |-> payload, escaped |-> FALSE]

\* Mutant: the handler has no catch clause.
Caught_Rethrown(msg) ==
    [isError |-> FALSE, text |-> msg, channels |-> NoChannels,
     payload |-> NullData, escaped |-> TRUE]

\* catch (error): `Error: ${error.message}` with isError
Caught(msg) == ToolReply(TRUE, "Error: " \o msg, NoChannels, NullData)

\* if (result.error) return { ..., isError: true }
Failed(res) == ToolReply(TRUE, "Error: " \o res.error, NoChannels, NullData)

\* The text of a successful invocation
SuccessText(v, tool, input) ==
    IF tool = ListTool THEN ""
    ELSE IF tool = SendTool
    THEN IF v = "oauth" THEN "Message sent successfully."
         ELSE "Message sent to #"
                 \o (IF Truthy(input.channelName) THEN input.channelName
                     ELSE "luminous")
                 \o " as bot."
    ELSE "Reply sent successfully."

\* Mutant: the webhook server's reply tool is handled as the OAuth server's.
Handler_ReplyCalled(v, tool, args, input, res) ==
    IF tool \notin {ListTool, SendTool, ReplyTool}
    THEN ToolReply(TRUE, UnknownToolText(tool), NoChannels, NullData)
    ELSE IF ~SchemaAccepts(v, tool, args, input) THEN Caught(ZodError)
    ELSE IF res.thrown THEN Caught(res.error)
    ELSE IF res.error # Null THEN Failed(res)
    ELSE ToolReply(FALSE, SuccessText(v, tool, input), res.channels, res.payload)

\* The handler's return value for an invocation of tool with args (input when
\* they are an object), res being what the operation returned or threw when
\* the handler called it.
Handler(v, tool, args, input, res) ==
    IF tool \notin {ListTool, SendTool, ReplyTool}
    THEN ToolReply(TRUE, UnknownToolText(tool), NoChannels, NullData)
    ELSE IF v = "webhook" /\ tool = ReplyTool
    THEN ToolReply(TRUE, NotSupportedText, NoChannels, NullData)
    ELSE IF ~SchemaAccepts(v, tool, args, input) THEN Caught(ZodError)
    ELSE IF res.thrown THEN Caught(res.error)
    ELSE IF res.error # Null THEN Failed(res)
    ELSE ToolReply(FALSE, SuccessText(v, tool, input), res.channels, res.payload)

-----------------------------------------------------------------------------
(* State machine *)

OAuthOps == {"listChannels", "sendMessage", "replyToMessage"}

WebhookOps == {"listChannels", "sendMessage"}

InputsOf(op) ==
    IF op = "listChannels" THEN {NoInput}
    ELSE IF op = "sendMessage" THEN SendInputs
    ELSE ReplyInputs

\* No call in progress.  A call's tool is the tool whose handler made it, ""
\* when the operation was called directly with an input no schema returns (a
\* direct call with any other input runs as the handler's call does).
NoCall == [op |-> "none", input |-> NoInput, tool |-> "", args |-> "object"]

\* The call of operation op with input
OpCall(v, op, input) ==
    [op |-> op, input |-> input,
     tool |-> IF FromSchema(v, op, input) THEN ToolOf(op) ELSE "",
     args |-> "object"]

\* The arguments a client may send with a tool
ArgsOf(tool) ==
    IF tool = SendTool THEN SendInputs
    ELSE IF tool = ReplyTool THEN ReplyInputs
    ELSE {NoInput}

Init ==
    /\ variant \in {"oauth", "webhook"}
    /\ moduleKind \in IF variant = "webhook" THEN {"commonjs", "esm"} ELSE {"commonjs"}
    /\ env \in OverrideTokens
    /\ store \in IF variant = "oauth" THEN {st \in Stores : "credential" \in st} ELSE Stores
    /\ cachedToken = ""
    /\ cachedExp = 0
    /\ disk \in IF variant = "oauth" THEN InitialDisks ELSE {AbsentFile}
    /\ cachedZapikey = ""
    /\ cachedOAuthToken = ""
    /\ oauthExpiresAt = 0
    /\ envChannel \in IF variant = "webhook" THEN {"", "ops"} ELSE {""}
    /\ now = Now0
    /\ ticks = 0
    /\ pc = "idle"
    /\ call = NoCall
    /\ reqs = <<>>
    /\ resps = <<>>
    /\ rsv = <<>>
    /\ log = <<>>
    /\ result = NoResult

\* The clock advances, between calls and while the first request is in flight
\* (an advance later in a call is the same as one after the call's return).
Tick ==
    /\ ticks < MaxTicks
    /\ pc \in {"idle", "Initial"}
    /\ \E d \in Deltas : now' = now + d
    /\ ticks' = ticks + 1
    /\ UNCHANGED <<variant, moduleKind, env, store, cachedToken, cachedExp, disk, cachedZapikey,
                   cachedOAuthToken, oauthExpiresAt, envChannel, pc, call, reqs,
                   resps, rsv, log, result>>

\* What loadToken may do from a state, over the answers of the token endpoint
\* and of the file system.
LoadOutcomes(mem, mexp, dsk, t) ==
    {LoadToken(mem, mexp, dsk, t, xr, wok) : xr \in ExchangeResults, wok \in BOOLEAN}

\* The file after clearTokenCache, over the answers of the file system, with
\* the step taken on the file: none when it does not exist, else the write of
\* the empty record, which went through or failed.
ClearOutcomes(dsk) ==
    {[disk |-> ClearTokenCache(dsk, cwok),
      ev |-> IF dsk.state = "absent" THEN <<>>
             ELSE IF cwok THEN <<"clearDisk">> ELSE <<"clearDiskFailed">>] :
        cwok \in BOOLEAN}

\* listChannels, sendMessage or replyToMessage of the OAuth client, from its
\* entry to its return or to the first API request.
CallOAuth ==
    /\ variant = "oauth"
    /\ pc = "idle"
    /\ \E op \in OAuthOps : \E input \in InputsOf(op) :
         /\ call' = OpCall(variant, op, input)
         /\ IF InputError(op, input) # Null
            THEN /\ result' = Result(NoChannels, NullData, FALSE, InputError(op, input))
                 /\ pc' = "Done"
                 /\ reqs' = <<>>
                 /\ rsv' = <<>>
                 /\ log' = <<"return">>
                 /\ UNCHANGED <<cachedToken, cachedExp, disk>>
            ELSE \E o \in LoadOutcomes(cachedToken, cachedExp, disk, now) :
                 /\ cachedToken' = o.mem
                 /\ cachedExp' = o.exp
                 /\ disk' = o.disk
                 /\ rsv' = <<Resolution("loadToken", cachedToken, cachedExp, disk, now, o)>>
                 /\ IF ~Truthy(o.ret)
                    THEN /\ result' = OpResult(op, Api(NullData, NoTokenError))
                         /\ pc' = "Done"
                         /\ reqs' = <<>>
                         /\ log' = <<"resolve">> \o o.ev \o <<"return">>
                    ELSE /\ result' = NoResult
                         /\ pc' = "Initial"
                         /\ reqs' = <<FirstCmd(op, input, o.ret)>>
                         /\ log' = <<"resolve">> \o o.ev \o <<"request">>
    /\ resps' = <<>>
    /\ UNCHANGED <<variant, moduleKind, env, store, cachedZapikey, cachedOAuthToken,
                   oauthExpiresAt, envChannel, now, ticks>>

\* apiRequest from the first response on: the return, or the invalidation, the
\* second resolution and the retried request.
RespondInitial ==
    /\ variant = "oauth"
    /\ pc = "Initial"
    /\ \E resp \in Responses :
         /\ resps' = Append(resps, resp)
         /\ IF IsAuthRejection(resp)
            THEN \E c \in ClearOutcomes(disk) :
                 \E o \in LoadOutcomes("", 0, c.disk, now) :
                 /\ cachedToken' = o.mem
                 /\ cachedExp' = o.exp
                 /\ disk' = o.disk
                 /\ rsv' = Append(rsv, Resolution("loadToken", "", 0, c.disk, now, o))
                 /\ IF ~Truthy(o.ret)
                    THEN /\ result' = OpResult(call.op, RefreshFailure)
                         /\ pc' = "Done"
                         /\ reqs' = reqs
                         /\ log' = log \o <<"invalidate">> \o c.ev \o <<"resolve">> \o o.ev
                                       \o <<"return">>
                    ELSE /\ result' = NoResult
                         /\ pc' = "Retried"
                         /\ reqs' = Append(reqs, RetryCmd(reqs[1], Auth(reqs[1]), o.ret))
                         /\ log' = log \o <<"invalidate">> \o c.ev \o <<"resolve">> \o o.ev
                                       \o <<"request">>
            ELSE /\ result' = OpResult(call.op, FirstResponse(resp))
                 /\ pc' = "Done"
                 /\ log' = Append(log, "return")
                 /\ UNCHANGED <<cachedToken, cachedExp, disk, rsv, reqs>>
    /\ UNCHANGED <<variant, moduleKind, env, store, cachedZapikey, cachedOAuthToken,
                   oauthExpiresAt, envChannel, now, ticks, call>>

\* Mutant: the retried response is examined as the first one is, and an auth
\* rejection is answered by one more request.
RespondRetried_Again ==
    /\ variant = "oauth"
    /\ pc = "Retried"
    /\ \E resp \in Responses :
         /\ resps' = Append(resps, resp)
         /\ IF IsAuthRejection(resp)
            THEN /\ result' = NoResult
                 /\ pc' = "Retried"
                 /\ reqs' = Append(reqs, reqs[Len(reqs)])
                 /\ log' = Append(log, "request")
            ELSE /\ result' = OpResult(call.op, RetryResponse(resp))
                 /\ pc' = "Done"
                 /\ reqs' = reqs
                 /\ log' = Append(log, "return")
    /\ UNCHANGED <<variant, moduleKind, env, store, cachedToken, cachedExp, disk,
                   cachedZapikey, cachedOAuthToken, oauthExpiresAt, envChannel, now,
                   ticks, call, rsv>>

\* apiRequest's return after the retried request.
RespondRetried ==
    /\ variant = "oauth"
    /\ pc = "Retried"
    /\ \E resp \in Responses :
         /\ resps' = Append(resps, resp)
         /\ result' = OpResult(call.op, RetryResponse(resp))
    /\ pc' = "Done"
    /\ log' = Append(log, "return")
    /\ UNCHANGED <<variant, moduleKind, env, store, cachedToken, cachedExp, disk, cachedZapikey,
                   cachedOAuthToken, oauthExpiresAt, envChannel, now, ticks, call,
                   reqs, rsv>>

\* The caller has the result; the server waits for the next invocation.
Return ==
    /\ pc = "Done"
    /\ pc' = "idle"
    /\ call' = NoCall
    /\ reqs' = <<>>
    /\ resps' = <<>>
    /\ rsv' = <<>>
    /\ log' = <<>>
    /\ result' = NoResult
    /\ UNCHANGED <<variant, moduleKind, env, store, cachedToken, cachedExp, disk, cachedZapikey,
                   cachedOAuthToken, oauthExpiresAt, envChannel, now, ticks>>

\* listChannels of the webhook client, up to its API request.
CallListW ==
    /\ variant = "webhook"
    /\ pc = "idle"
    /\ \E o \in {GetOAuthToken(cachedOAuthToken, oauthExpiresAt, now, xr) :
                     xr \in ExchangeResults} :
         /\ cachedOAuthToken' = o.mem
         /\ oauthExpiresAt' = o.exp
         /\ rsv' = <<Resolution("getOAuthToken", cachedOAuthToken, oauthExpiresAt,
                                AbsentFile, now, o)>>
         /\ IF ~Truthy(o.ret)
            THEN /\ result' = Result(NoChannels, NullData, FALSE, NoOAuthError)
                 /\ pc' = "Done"
                 /\ reqs' = <<>>
                 /\ log' = <<"resolve">> \o o.ev \o <<"return">>
            ELSE /\ result' = NoResult
                 /\ pc' = "Initial"
                 /\ reqs' = <<CurlJsonCmd("GET", BASE_URL \o "/channels",
                                          AuthHeader(o.ret) \o ContentType, "")>>
                 /\ log' = <<"resolve">> \o o.ev \o <<"request">>
    /\ call' = OpCall(variant, "listChannels", NoInput)
    /\ resps' = <<>>
    /\ UNCHANGED <<variant, moduleKind, env, store, cachedToken, cachedExp, disk, cachedZapikey,
                   envChannel, now, ticks>>

\* sendMessage of the webhook client, up to its API request.
CallSendW ==
    /\ variant = "webhook"
    /\ pc = "idle"
    /\ \E input \in SendInputs :
         LET o == GetZapikey(cachedZapikey) IN
         /\ call' = OpCall(variant, "sendMessage", input)
         /\ IF ~Truthy(input.text)
            THEN /\ result' = Result(NoChannels, NullData, FALSE, TextRequiredError)
                 /\ pc' = "Done"
                 /\ reqs' = <<>>
                 /\ rsv' = <<>>
                 /\ log' = <<"return">>
                 /\ UNCHANGED cachedZapikey
            ELSE /\ cachedZapikey' = o.mem
                 /\ rsv' = <<Resolution("getZapikey", cachedZapikey, -1, AbsentFile,
                                        now, o)>>
                 /\ IF ~Truthy(o.ret)
                    THEN /\ result' = Result(NoChannels, NullData, FALSE, NoWebhookError)
                         /\ pc' = "Done"
                         /\ reqs' = <<>>
                         /\ log' = <<"resolve">> \o o.ev \o <<"return">>
                    ELSE /\ result' = NoResult
                         /\ pc' = "Initial"
                         /\ reqs' = <<CurlJsonCmd("POST", WebhookUrl(o.ret), ContentType,
                                                  WebhookPayload(input))>>
                         /\ log' = <<"resolve">> \o o.ev \o <<"request">>
    /\ resps' = <<>>
    /\ UNCHANGED <<variant, moduleKind, env, store, cachedToken, cachedExp, disk,
                   cachedOAuthToken, oauthExpiresAt, envChannel, now, ticks>>

\* curlJson's return and the rest of the webhook client's operation.
RespondW ==
    /\ variant = "webhook"
    /\ pc = "Initial"
    /\ \E resp \in Responses :
         /\ resps' = Append(resps, resp)
         /\ result' = IF call.op = "listChannels" THEN ListChannelsW(resp)
                      ELSE SendMessageW(resp)
    /\ pc' = "Done"
    /\ log' = Append(log, "return")
    /\ UNCHANGED <<variant, moduleKind, env, store, cachedToken, cachedExp, disk, cachedZapikey,
                   cachedOAuthToken, oauthExpiresAt, envChannel, now, ticks, call,
                   reqs, rsv>>

\* An invocation the handler answers without calling an operation.
AnswerAlone ==
    /\ pc = "idle"
    /\ \E tool \in ToolNames : \E args \in ArgsKinds :
       \E input \in IF args = "object" THEN ArgsOf(tool) ELSE {NoInput} :
         /\ AnswersAlone(variant, tool, args, input)
         /\ call' = [op |-> "none", input |-> input, tool |-> tool, args |-> args]
    /\ pc' = "Done"
    /\ reqs' = <<>>
    /\ resps' = <<>>
    /\ rsv' = <<>>
    /\ log' = <<>>
    /\ result' = NoResult
    /\ UNCHANGED <<variant, moduleKind, env, store, cachedToken, cachedExp, disk, cachedZapikey,
                   cachedOAuthToken, oauthExpiresAt, envChannel, now, ticks>>

\* What the client of the server gets for the invocation that has ended
\* (pc = "Done" and call.tool names a tool).
ToolResult == Handler(variant, call.tool, call.args, call.input, result)

Next ==
    \/ Tick
    \/ AnswerAlone
    \/ CallOAuth
    \/ RespondInitial
    \/ RespondRetried
    \/ CallListW
    \/ CallSendW
    \/ RespondW
    \/ Return

Spec == Init /\ [][Next]_vars

\* Every curl subprocess is run by execSync with a timeout (30 s for the API
\* requests), and the code after it is synchronous: a request in flight is
\* answered, by a response or by the subprocess's failure, and the operation
\* then runs on to its return.
FairSpec ==
    /\ Spec
    /\ WF_vars(RespondInitial)
    /\ WF_vars(RespondRetried)
    /\ WF_vars(RespondW)

-----------------------------------------------------------------------------
(* Properties *)

Count(seq, e) == Cardinality({i \in 1..Len(seq) : seq[i] = e})

\* The response carries one of the two auth-rejection codes.
CarriesAuthCode(resp) ==
    /\ resp.exec
    /\ resp.body = "object"
    /\ resp.code \in {"INVALID_OAUTH", "OAUTH_EXPIRED"}

\* C1: a call issues at most two API requests; the second only after a first
\* response that carried INVALID_OAUTH or OAUTH_EXPIRED; the response to the
\* second request ends the call whatever it carries; in the webhook variant a
\* call issues at most one API request.
C1_AtMostOneRetry ==
    /\ Len(reqs) <= 2
    /\ Count(log, "request") = Len(reqs)
    /\ Len(resps) <= Len(reqs)
    /\ Len(reqs) = 2 => Len(resps) >= 1 /\ CarriesAuthCode(resps[1])
    /\ Len(resps) = 2 => pc = "Done"
    /\ variant = "webhook" => Len(reqs) <= 1

C1_Witness ==
    /\ variant = "oauth"
    /\ pc = "Done"
    /\ Len(reqs) = 2
    /\ Len(resps) = 2
    /\ CarriesAuthCode(resps[2])

\* C2: when the first response and the response to the retried request both
\* carry an auth-rejection code, the operation returns a failure (a non-null
\* error).
C2_SecondRejectionFails ==
    (/\ pc = "Done"
     /\ Len(resps) = 2
     /\ CarriesAuthCode(resps[1])
     /\ CarriesAuthCode(resps[2]))
    => result.error # Null

\* C3: when the response to the final request has a status outside [200,300),
\* the operation returns a failure (a non-null error).
C3_Non2xxFails ==
    (/\ pc = "Done"
     /\ Len(resps) >= 1
     /\ resps[Len(resps)].exec
     /\ ~(resps[Len(resps)].status >= 200 /\ resps[Len(resps)].status < 300))
    => result.error # Null

\* The resolutions of OAuth access tokens (the webhook key has no expiry).
IsTokenResolution(r) == r.kind \in {"loadToken", "getOAuthToken"}

\* getOAuthToken knows no override; loadToken and getZapikey read theirs.
OverrideSet(r) == r.kind # "getOAuthToken" /\ Truthy(r.override)

SlotExpired(r) == Truthy(r.memBefore) /\ r.expBefore >= 0 /\ r.expBefore <= r.at

SlotValid(r) == Truthy(r.memBefore) /\ r.at < r.expBefore

DiskExpired(r) ==
    /\ r.diskBefore.state = "json"
    /\ Truthy(r.diskBefore.access_token)
    /\ r.diskBefore.expires_at <= r.at

DiskValid(r) ==
    /\ r.diskBefore.state = "json"
    /\ Truthy(r.diskBefore.access_token)
    /\ r.at < r.diskBefore.expires_at

SecretStoreCalls(r) ==
    {i \in 1..Len(r.ev) : r.ev[i] \in {"op:refresh_token", "op:client_id",
                                        "op:client_secret", "op:credential"}}

\* The resolution returned tok and touched nothing: no secret-store call, no
\* token exchange, no write of the file.
QuietReturn(r, tok) ==
    /\ r.ret = tok
    /\ SecretStoreCalls(r) = {}
    /\ Count(r.ev, "exchange") = 0
    /\ Count(r.ev, "writeDisk") = 0
    /\ r.diskAfter = r.diskBefore

\* C4: with no override set, a resolution made when the cached token's expiry
\* instant is at or before the current time does not return the cached token
\* (from the in-memory slot or, the slot being empty, from the disk record): it
\* goes to the secret store exactly once.
C4_ExpiredTokenNotReturned ==
    \A i \in 1..Len(rsv) :
        (/\ IsTokenResolution(rsv[i])
         /\ ~OverrideSet(rsv[i])
         /\ \/ SlotExpired(rsv[i])
            \/ ~Truthy(rsv[i].memBefore) /\ DiskExpired(rsv[i]))
        => /\ rsv[i].src \in {"refresh", "none"}
           /\ Count(rsv[i].ev, "op:refresh_token") = 1

\* C5 as stated: a cached token, in the in-memory slot or in the disk record,
\* whose expiry is strictly in the future is what the resolution returns, and it
\* touches nothing.
C5_ValidTokenReturned ==
    \A i \in 1..Len(rsv) :
        IsTokenResolution(rsv[i]) =>
            /\ SlotValid(rsv[i]) => QuietReturn(rsv[i], rsv[i].memBefore)
            /\ DiskValid(rsv[i]) => QuietReturn(rsv[i], rsv[i].diskBefore.access_token)

\* C5, amended: the token of the in-memory slot whose expiry is strictly in the
\* future, and, with no override set, the token of the disk record whose expiry
\* is strictly in the future, is what the resolution returns, and it touches
\* nothing: no secret-store call, no token exchange, no write of the file.
C5_ValidTokenReturnedNoOverride ==
    \A i \in 1..Len(rsv) :
        IsTokenResolution(rsv[i]) =>
            /\ SlotValid(rsv[i]) => QuietReturn(rsv[i], rsv[i].memBefore)
            /\ (DiskValid(rsv[i]) /\ ~OverrideSet(rsv[i]))
                   => QuietReturn(rsv[i], rsv[i].diskBefore.access_token)

C5_Witness ==
    \E i \in 1..Len(rsv) :
        /\ rsv[i].kind = "loadToken"
        /\ ~Truthy(rsv[i].memBefore)
        /\ ~OverrideSet(rsv[i])
        /\ DiskValid(rsv[i])
        /\ rsv[i].ret = rsv[i].diskBefore.access_token

\* The call's resolutions, invalidations and API requests, in order.
Steps == SelectSeq(log, LAMBDA e : e \in {"resolve", "invalidate", "request"})

\* C6: after a first response carrying an auth-rejection code the call
\* invalidates, then resolves exactly once more (from an empty slot), then, the
\* resolution having returned a credential, reissues exactly once the same
\* command with only the Authorization credential replaced by the one resolved;
\* and a call invalidates only after such a first response.
C6_InvalidateResolveReissue ==
    /\ Count(log, "invalidate") > 0 => Len(resps) >= 1 /\ CarriesAuthCode(resps[1])
    /\ (variant = "oauth" /\ Len(resps) >= 1 /\ CarriesAuthCode(resps[1])) =>
          /\ Len(rsv) = 2
          /\ ~Truthy(rsv[2].memBefore)
          /\ Steps = IF Truthy(rsv[2].ret)
                     THEN <<"resolve", "request", "invalidate", "resolve", "request">>
                     ELSE <<"resolve", "request", "invalidate", "resolve">>
          /\ Len(reqs) = IF Truthy(rsv[2].ret) THEN 2 ELSE 1
          /\ Len(reqs) = 2 =>
                /\ Len(reqs[2]) = Len(reqs[1])
                /\ Method(reqs[2]) = Method(reqs[1])
                /\ Url(reqs[2]) = Url(reqs[1])
                /\ Body(reqs[2]) = Body(reqs[1])
                /\ Auth(reqs[2]) = rsv[2].ret
                /\ \A k \in 1..Len(reqs[1]) :
                      reqs[2][k] # reqs[1][k] =>
                          k > 1 /\ reqs[1][k - 1] = "Zoho-oauthtoken"

C6_Witness ==
    /\ pc = "Retried"
    /\ Len(reqs) = 2
    /\ Auth(reqs[2]) # Auth(reqs[1])
    /\ Body(reqs[2]) # ""

\* C7: when the resolution made after an auth rejection fails, the operation
\* returns the failure 'Failed to refresh access token' with no payload, no
\* second API request is issued and the in-memory slot is empty.
C7_RefreshFailure ==
    (/\ variant = "oauth"
     /\ pc = "Done"
     /\ Len(rsv) = 2
     /\ ~Truthy(rsv[2].ret))
    => /\ result.error = "Failed to refresh access token"
       /\ result.payload = NullData
       /\ result.channels = <<>>
       /\ Len(reqs) = 1
       /\ cachedToken = ""

C7_Witness ==
    /\ variant = "oauth"
    /\ pc = "Done"
    /\ Len(rsv) = 2
    /\ ~Truthy(rsv[2].ret)
    /\ Truthy(rsv[1].ret)

\* C8: with the override set, every resolution of the OAuth token (loadToken)
\* and of the webhook key (getZapikey) returns the override and neither reads
\* the file nor calls the secret store nor exchanges a token, from every cache
\* state, the one right after an invalidation included.
C8_OverrideWins ==
    \A i \in 1..Len(rsv) :
        OverrideSet(rsv[i]) =>
            /\ QuietReturn(rsv[i], rsv[i].override)
            /\ Count(rsv[i].ev, "readDisk") = 0

C8_Witness ==
    /\ Len(rsv) = 2
    /\ OverrideSet(rsv[2])
    /\ rsv[2].ret = rsv[2].override
    /\ rsv[2].diskBefore.state = "json"

\* The secret store lacks one of the three fields of the refresh.
LacksRefreshField ==
    \E f \in {"refresh_token", "client_id", "client_secret"} : f \notin store

\* The resolution starts with no override and no cached token it accepts.
NothingCached(r) ==
    /\ IsTokenResolution(r)
    /\ ~OverrideSet(r)
    /\ IF r.kind = "loadToken" THEN ~Truthy(r.memBefore) /\ ~DiskValid(r)
       ELSE ~SlotValid(r)

\* C9: with no override and no accepted cached token, a secret store lacking
\* refresh_token, client_id or client_secret makes the resolution fail without
\* a token exchange, and listChannels (OAuth client) then returns no channels,
\* the 'No access token available...' error, and issues no API request.
C9_MissingSecretField ==
    /\ \A i \in 1..Len(rsv) :
          (NothingCached(rsv[i]) /\ LacksRefreshField) =>
              /\ ~Truthy(rsv[i].ret)
              /\ Count(rsv[i].ev, "exchange") = 0
    /\ (/\ variant = "oauth"
        /\ call.op = "listChannels"
        /\ Len(rsv) >= 1
        /\ NothingCached(rsv[1])
        /\ LacksRefreshField)
       => /\ pc = "Done"
          /\ result.channels = <<>>
          /\ result.error =
               "No access token available. Check CLIQ_ACCESS_TOKEN env var or 1Password item."
          /\ reqs = <<>>

C9_Witness ==
    /\ variant = "oauth"
    /\ call.op = "listChannels"
    /\ pc = "Done"
    /\ Len(rsv) = 1
    /\ NothingCached(rsv[1])
    /\ DiskExpired(rsv[1])
    /\ "refresh_token" \in store
    /\ LacksRefreshField

SelectorKinds == {"channelId", "channelName", "chatId", "userId"}

Selectors(input) == {k \in SelectorKinds : Truthy(input[k])}

\* The endpoint the specification gives each selector kind.
SelectorPath(k, id) ==
    IF k = "channelId" THEN "/channels/" \o id \o "/messages"
    ELSE IF k = "channelName" THEN "/channelsbyname/" \o id \o "/message"
    ELSE IF k = "chatId" THEN "/chats/" \o id \o "/messages"
    ELSE "/users/" \o id \o "/messages"

\* The final response is a success: a 2xx status and a JSON object that
\* carries no auth-rejection code.
FinalSuccess ==
    /\ pc = "Done"
    /\ Len(resps) >= 1
    /\ resps[Len(resps)].exec
    /\ resps[Len(resps)].status >= 200
    /\ resps[Len(resps)].status < 300
    /\ resps[Len(resps)].body = "object"
    /\ ~CarriesAuthCode(resps[Len(resps)])

\* C10: sendMessage (OAuth client) with non-empty text and exactly one selector
\* sends, once a credential is resolved, a POST to that selector's endpoint (and
\* every request of the call goes there), the endpoints of the other selector
\* kinds being different, and on success returns the response body as message
\* with error = null; with no selector it returns the 'Must specify ...' failure
\* and issues no request.
C10_SelectorEndpoint ==
    (variant = "oauth" /\ call.op = "sendMessage" /\ Truthy(call.input.text)) =>
        /\ Cardinality(Selectors(call.input)) = 1 =>
              LET k == CHOOSE x \in SelectorKinds : Truthy(call.input[x]) IN
              /\ (Len(rsv) >= 1 /\ Truthy(rsv[1].ret)) => Len(reqs) >= 1
              /\ \A i \in 1..Len(reqs) :
                    /\ Method(reqs[i]) = "POST"
                    /\ Url(reqs[i]) = "https://cliq.zoho.com/api/v2"
                                          \o SelectorPath(k, call.input[k])
              /\ \A other \in SendInputs :
                    (Cardinality(Selectors(other)) = 1 /\ ~Truthy(other[k]))
                        => Endpoint(other) # Endpoint(call.input)
              /\ FinalSuccess =>
                    /\ result.payload = DataOf(resps[Len(resps)])
                    /\ result.error = Null
        /\ Selectors(call.input) = {} =>
              /\ pc = "Done"
              /\ result.error = "Must specify channelId, channelName, chatId, or userId"
              /\ result.payload = NullData
              /\ reqs = <<>>
              /\ rsv = <<>>

C10_Witness ==
    /\ variant = "oauth"
    /\ call.op = "sendMessage"
    /\ Selectors(call.input) = {"channelName"}
    /\ FinalSuccess
    /\ result.payload.id = "m1"
    /\ result.error = Null

\* The InvalidInput failures of the OAuth client
InvalidInputErrors ==
    {"Message text is required",
     "Must specify channelId, channelName, chatId, or userId",
     "Message ID and text are required"}

\* C11: the selectors exclude each other: the input schema of the send tool
\* lets an input through to sendMessage only when exactly one of channelId,
\* channelName, chatId, userId is present, and sendMessage (OAuth client) called with a text and two
\* or more selectors returns an InvalidInput failure without resolving a
\* credential and without issuing a request.
C11_SelectorsExclusive ==
    /\ (variant = "oauth" /\ call.op = "sendMessage" /\ call.tool = SendTool)
       => Cardinality(Selectors(call.input)) = 1
    /\ (/\ variant = "oauth"
        /\ call.op = "sendMessage"
        /\ Truthy(call.input.text)
        /\ Cardinality(Selectors(call.input)) >= 2)
       => /\ pc = "Done"
          /\ result.error \in InvalidInputErrors
          /\ reqs = <<>>
          /\ rsv = <<>>

\* The credential state of both clients
Caches == <<cachedToken, cachedExp, disk, cachedZapikey, cachedOAuthToken,
            oauthExpiresAt>>

\* C12: sendMessage with an empty text, whatever selectors come with it and in
\* both variants, returns 'Message text is required' at once: the step that
\* starts the call ends it, resolves no credential, leaves the token caches
\* (slot and file) as they were and issues no request.
C12_EmptyTextRejected ==
    /\ [](call.op = "sendMessage" /\ ~Truthy(call.input.text)
            => /\ pc = "Done"
               /\ result.error = "Message text is required"
               /\ ~result.thrown
               /\ rsv = <<>>
               /\ reqs = <<>>
               /\ resps = <<>>
               /\ log = <<"return">>)
    /\ [][(pc = "idle" /\ call'.op = "sendMessage" /\ ~Truthy(call'.input.text))
            => UNCHANGED Caches]_vars

C12_Witness ==
    /\ variant = "oauth"
    /\ call.op = "sendMessage"
    /\ call.input.text = ""
    /\ Selectors(call.input) = SelectorKinds
    /\ pc = "Done"
    /\ result.error = "Message text is required"
    /\ reqs = <<>>
    /\ cachedToken = "tOld"

\* C13: replyToMessage with an empty messageId or an empty text returns the
\* 'Message ID and text are required' failure without resolving a credential
\* and without issuing a request; with both non-empty it resolves a credential
\* and, once it has one, sends POST requests to the fixed /messages endpoint
\* whose body is exactly {text, parent_message_id: messageId}.
C13_ReplyValidation ==
    (variant = "oauth" /\ call.op = "replyToMessage") =>
        /\ (~Truthy(call.input.text) \/ ~Truthy(call.input.messageId)) =>
              /\ pc = "Done"
              /\ result.error = "Message ID and text are required"
              /\ result.payload = NullData
              /\ rsv = <<>>
              /\ reqs = <<>>
        /\ (Truthy(call.input.text) /\ Truthy(call.input.messageId)) =>
              /\ Len(rsv) >= 1
              /\ Truthy(rsv[1].ret) => Len(reqs) >= 1
              /\ \A i \in 1..Len(reqs) :
                    /\ Method(reqs[i]) = "POST"
                    /\ Url(reqs[i]) = "https://cliq.zoho.com/api/v2/messages"
                    /\ Body(reqs[i]) = "{text:" \o call.input.text
                                           \o ",parent_message_id:"
                                           \o call.input.messageId \o "}"

C13_Witness ==
    /\ variant = "oauth"
    /\ call.op = "replyToMessage"
    /\ call.input.text = "hi"
    /\ call.input.messageId = "m0"
    /\ FinalSuccess
    /\ Len(reqs) = 2
    /\ Body(reqs[2]) = "{text:hi,parent_message_id:m0}"
    /\ result.error = Null

\* C14: in the webhook variant every invocation of cliq_reply_to_message,
\* whatever its arguments and the credential state, returns the fixed 'not
\* supported' text with the error flag, resolves no credential and issues no
\* request.
C14_WebhookReplyUnsupported ==
    (variant = "webhook" /\ call.tool = "cliq_reply_to_message") =>
        /\ pc = "Done"
        /\ ToolResult.isError
        /\ ~ToolResult.escaped
        /\ ToolResult.text = "Reply-to-message is not yet supported via bot webhook."
        /\ rsv = <<>>
        /\ reqs = <<>>
        /\ log = <<>>

C14_Witness ==
    /\ variant = "webhook"
    /\ call.tool = "cliq_reply_to_message"
    /\ call.args = "object"
    /\ call.input.text = "hi"
    /\ call.input.messageId = "m0"
    /\ pc = "Done"
    /\ ToolResult.isError
    /\ cachedZapikey = "op-credential"
    /\ cachedOAuthToken = "tA"

\* The last response of the call is a 2xx response.
Final2xx ==
    /\ pc = "Done"
    /\ Len(resps) >= 1
    /\ resps[Len(resps)].exec
    /\ resps[Len(resps)].status >= 200
    /\ resps[Len(resps)].status < 300

\* C15: listChannels, in both variants, on a 2xx response whose body has no
\* channels array returns the failure 'Unexpected response format' with an
\* empty channel list.
C15_MissingChannelsIsShapeError ==
    (call.op = "listChannels" /\ Final2xx /\ ~resps[Len(resps)].hasChannels) =>
        /\ ~result.thrown
        /\ result.error = "Unexpected response format"
        /\ result.channels = <<>>

\* C16: a 2xx response with an empty body is tolerated by every operation: the
\* operation does not raise, does not return the JSON parser's error, and
\* sendMessage and replyToMessage, which need nothing from the body, return no
\* error.
C16_EmptyBodyTolerated ==
    (Final2xx /\ resps[Len(resps)].body = "empty") =>
        /\ ~result.thrown
        /\ result.error # "Unexpected end of JSON input"
        /\ call.op \in {"sendMessage", "replyToMessage"} => result.error = Null

\* The failure outcomes of an invocation: the tool is unknown or unsupported or
\* its arguments fail the schema (no operation is called), or the operation
\* called raises, or it returns an error.
FailureOutcome ==
    \/ call.op = "none"
    \/ result.thrown
    \/ result.error # Null

\* C17: every tool invocation (any name, any arguments, any credential state,
\* any upstream or subprocess outcome) ends with a tagged result returned by
\* the handler, no exception escaping it, and every failure outcome carries
\* isError = true.
C17_HandlerTotal ==
    (pc = "Done" /\ call.tool # "") =>
        /\ ~ToolResult.escaped
        /\ ToolResult.isError \in BOOLEAN
        /\ FailureOutcome => ToolResult.isError

C17_Witness ==
    /\ variant = "webhook"
    /\ pc = "Done"
    /\ call.tool = "cliq_list_channels"
    /\ Len(resps) = 1
    /\ ~resps[1].exec
    /\ result.thrown
    /\ ToolResult.isError
    /\ ~ToolResult.escaped

\* C18: listChannels on a successful response (2xx, a JSON object with a
\* channels array and no auth-rejection code) returns error = null and a list
\* of the same length and order as the response's channels, each entry being
\* exactly the id, name and unique_name of the raw entry, unchanged.
C18_ChannelsMapped ==
    (/\ call.op = "listChannels"
     /\ FinalSuccess
     /\ resps[Len(resps)].hasChannels)
    => LET raw == resps[Len(resps)].channels IN
       /\ ~result.thrown
       /\ result.error = Null
       /\ Len(result.channels) = Len(raw)
       /\ \A i \in 1..Len(raw) :
             /\ DOMAIN result.channels[i] = {"id", "name", "unique_name"}
             /\ result.channels[i].id = raw[i].id
             /\ result.channels[i].name = raw[i].name
             /\ result.channels[i].unique_name = raw[i].unique_name

\* The file when the call's invalidation began: the file the first resolution
\* left (nothing else writes it in between).
FileAtInvalidate == rsv[1].diskAfter

\* C19: after the invalidation (clearTokenCache), in every prior state, the
\* in-memory slot is empty and the disk cache, if the file exists, holds the
\* empty record; so the next resolution does not return a token from the slot
\* or from the disk cache.
C19_InvalidateClears ==
    (variant = "oauth" /\ Len(rsv) = 2) =>
        /\ rsv[2].memBefore = ""
        /\ FileAtInvalidate.state # "absent" => rsv[2].diskBefore = EmptyRecord
        /\ FileAtInvalidate.state = "absent" => rsv[2].diskBefore = AbsentFile
        /\ rsv[2].src \notin {"memory", "disk"}

\* C19 (amended): after the invalidation the in-memory slot is empty; no file
\* is created when none exists; when the file exists the empty record is
\* written to it, and holds if the write goes through, while a failed write is
\* ignored and leaves the file as it was; the next resolution never returns a
\* token from the slot, and returns one from the disk cache only when that
\* write failed.
C19_InvalidateClearsIfWritten ==
    (variant = "oauth" /\ Len(rsv) = 2) =>
        /\ Truthy(rsv[1].memAfter)
        /\ rsv[2].memBefore = ""
        /\ rsv[2].src # "memory"
        /\ Count(log, "invalidate") = 1
        /\ Count(log, "clearDisk") + Count(log, "clearDiskFailed")
              = IF FileAtInvalidate.state = "absent" THEN 0 ELSE 1
        /\ FileAtInvalidate.state = "absent" => rsv[2].diskBefore = AbsentFile
        /\ Count(log, "clearDisk") = 1 =>
              /\ rsv[2].diskBefore = EmptyRecord
              /\ rsv[2].src # "disk"
        /\ Count(log, "clearDiskFailed") = 1 => rsv[2].diskBefore = FileAtInvalidate

C19_Witness ==
    /\ variant = "oauth"
    /\ Len(rsv) = 2
    /\ rsv[1].src = "disk"
    /\ rsv[1].ret = "tOld"
    /\ Count(log, "clearDisk") = 1
    /\ rsv[2].memBefore = ""
    /\ rsv[2].diskBefore = EmptyRecord
    /\ rsv[2].src = "refresh"
    /\ rsv[2].ret = "tA"

\* C20: when the token exchange grants an access token, the resolution returns
\* it and the in-memory slot holds it, with the expiry now + lifetime * 1000,
\* the lifetime being the seconds the server gave, or 3600 when it gave none;
\* the client with a disk cache (loadToken) overwrites the record with that
\* token and that expiry, and when the write fails the file stays as it was
\* while the token is still returned and the slot still updated.
C20_ExchangeSuccess ==
    \A i \in 1..Len(rsv) :
        LET r == rsv[i]
            lifetime == IF r.lifetime # 0 THEN r.lifetime ELSE 3600
            expiry == r.at + lifetime * 1000
        IN Truthy(r.granted) =>
            /\ Count(r.ev, "exchange") = 1
            /\ r.src = "refresh"
            /\ r.ret = r.granted
            /\ r.memAfter = r.granted
            /\ r.expAfter = expiry
            /\ r.kind = "loadToken" =>
                  /\ Count(r.ev, "writeDisk") = 1
                  /\ r.wrote => r.diskAfter = TokenRecord(r.granted, expiry)
                  /\ ~r.wrote => r.diskAfter = r.diskBefore
            /\ r.kind = "getOAuthToken" =>
                  /\ Count(r.ev, "writeDisk") = 0
                  /\ r.diskAfter = AbsentFile
            /\ i = Len(rsv) =>
                  IF r.kind = "loadToken"
                  THEN cachedToken = r.granted /\ disk = r.diskAfter
                  ELSE cachedOAuthToken = r.granted /\ oauthExpiresAt = expiry

C20_Witness ==
    /\ variant = "oauth"
    /\ Len(rsv) = 1
    /\ rsv[1].granted = "tB"
    /\ rsv[1].lifetime = 1
    /\ ~rsv[1].wrote
    /\ rsv[1].ret = "tB"
    /\ cachedToken = "tB"
    /\ rsv[1].diskBefore.access_token = "tOld"
    /\ disk = rsv[1].diskBefore

\* C21: a resolution that returns failure (a secret-store field is missing, the
\* exchange failed or its answer carries no access_token) leaves the in-memory
\* slot and the disk cache record exactly as they were before it, in every
\* resolver; the slot's expiry instant too, where the resolver keeps one.
C21_FailureLeavesCaches ==
    \A i \in 1..Len(rsv) :
        LET r == rsv[i] IN
        ~Truthy(r.ret) =>
            /\ r.src = "none"
            /\ r.memAfter = r.memBefore
            /\ r.diskAfter = r.diskBefore
            /\ Count(r.ev, "writeDisk") = 0
            /\ r.kind = "getOAuthToken" => r.expAfter = r.expBefore
            /\ i = Len(rsv) =>
                  /\ r.kind = "loadToken" => cachedToken = r.memBefore /\ disk = r.diskBefore
                  /\ r.kind = "getZapikey" => cachedZapikey = r.memBefore
                  /\ r.kind = "getOAuthToken" =>
                        /\ cachedOAuthToken = r.memBefore
                        /\ oauthExpiresAt = r.expBefore

C21_Witness ==
    /\ variant = "webhook"
    /\ Len(rsv) = 1
    /\ rsv[1].kind = "getOAuthToken"
    /\ rsv[1].ret = ""
    /\ Count(rsv[1].ev, "exchange") = 1
    /\ rsv[1].memBefore = "tA"
    /\ cachedOAuthToken = "tA"
    /\ oauthExpiresAt = rsv[1].at

\* C22: whenever a request is retried after an auth rejection, the credential
\* in the retried request's Authorization header is the one the resolution
\* after the invalidation returned, and it is not the credential that was just
\* rejected, whatever source that resolution took it from (the explicit
\* override included).
C22_RetryCredentialIsNew ==
    Len(reqs) = 2 =>
        /\ Len(rsv) = 2
        /\ Auth(reqs[1]) = rsv[1].ret
        /\ Auth(reqs[2]) = rsv[2].ret
        /\ Auth(reqs[2]) # Auth(reqs[1])

\* The result is a success whose payload is taken from the last response.
IsSuccessResult ==
    /\ result.error = Null
    /\ Len(resps) >= 1
    /\ LET last == resps[Len(resps)] IN
       IF call.op = "listChannels"
       THEN /\ last.hasChannels
            /\ Len(result.channels) = Len(last.channels)
       ELSE IF variant = "webhook"
       THEN result.success
       ELSE /\ result.payload = DataOf(last)
            /\ last.body \notin {"null", "false", "empty"}

\* The result is a failure: an error and no payload.
IsFailureResult ==
    /\ result.error # Null
    /\ result.channels = <<>>
    /\ result.payload = NullData
    /\ ~result.success

\* C23: every result that listChannels, sendMessage or replyToMessage returns
\* is either a success (error = null, payload taken from the upstream
\* response) or a failure (an error, empty or null payload); no upstream body,
\* the JSON values null and false included, gives a result with a null payload
\* and error = null, which the handler would render without the error flag.
C23_SuccessOrFailure ==
    (pc = "Done" /\ call.op # "none" /\ ~result.thrown) =>
        /\ IsSuccessResult \/ IsFailureResult
        /\ (call.tool # "" /\ ~ToolResult.isError) => IsSuccessResult

\* The channel the specification gives a webhook message: the channelName
\* given, else CLIQ_DEFAULT_CHANNEL, else 'luminous'.
ChannelFor(input) ==
    IF Truthy(input.channelName) THEN input.channelName
    ELSE IF Truthy(envChannel) THEN envChannel
    ELSE "luminous"

\* Every request of the call posts {text, channel} with the channel above.
PostsToChannel ==
    \A i \in 1..Len(reqs) :
        /\ Method(reqs[i]) = "POST"
        /\ Body(reqs[i]) = "{text:" \o call.input.text \o ",channel:"
                               \o ChannelFor(call.input) \o "}"

\* C24: in the webhook variant sendMessage with a non-empty text posts
\* {text, channel}, channel being the channelName given or, when none is
\* given, the configured default channel (CLIQ_DEFAULT_CHANNEL, else
\* 'luminous'); and the confirmation text cliq_send_message returns names
\* exactly the channel of the posted payload, however the default channel is
\* configured.
C24_ConfirmationNamesChannel ==
    (variant = "webhook" /\ call.op = "sendMessage" /\ Truthy(call.input.text)) =>
        /\ PostsToChannel
        /\ (pc = "Done" /\ call.tool = "cliq_send_message" /\ ~ToolResult.isError) =>
              /\ Len(reqs) = 1
              /\ ToolResult.text = "Message sent to #" \o ChannelFor(call.input)
                                       \o " as bot."

\* A step from Initial stays there (the clock), ends the call, or moves to
\* Retried, and then the response just received carries an auth-rejection code.
RetryOnlyOnAuthSignal ==
    pc = "Initial" =>
        (/\ pc' \in {"Initial", "Retried", "Done"}
         /\ pc' = "Retried" =>
               (/\ Len(resps') = 1
                /\ resps'[1].exec
                /\ resps'[1].body = "object"
                /\ resps'[1].code \in {"INVALID_OAUTH", "OAUTH_EXPIRED"}))

\* A step from Retried ends the call.
RetriedEndsCall == pc = "Retried" => pc' = "Done"

\* While a call is under way every step is a step of that call, and once it
\* has ended the next step hands its result back.
NoOtherCallMeanwhile ==
    /\ pc \in {"Initial", "Retried"} => call' = call
    /\ pc = "Done" => (pc' = "idle" /\ UNCHANGED Caches)

=============================================================================
